---------------------------- MODULE Spec2Model ----------------------------
(***************************************************************************)
(* National Energy Insights System (NEIS): the access-token lifecycle      *)
(* (generate_key, verify_api_key), the manual-emissions override store and *)
(* the emissions resolution of national_summary and county_insights, as    *)
(* written in src/main.py over the tables loaded by src/utils.py.          *)
(*                                                                         *)
(* Time is counted in minutes (datetime.utcnow() read as a number); a      *)
(* float is an integer; secrets.token_urlsafe returns a value that was     *)
(* never returned before.                                                  *)
(***************************************************************************)
EXTENDS Integers, Sequences, FiniteSets, TLC

VARIABLES
    now,                        \* the wall clock that datetime.utcnow() reads
    API_KEYS,                   \* main.py:41, token -> expires_at
    MANUAL_EMISSIONS_OVERRIDE,  \* main.py:95, scope -> value
    issued,                     \* history: every token generate_key returned -> its expires_at
    resp,                       \* the request served in the last step and its response
    threads                     \* the worker threads of the concurrent specification

vars == <<now, API_KEYS, MANUAL_EMISSIONS_OVERRIDE, issued, resp, threads>>

(***************************************************************************)
(* Bounds of the model.                                                    *)
(***************************************************************************)
MaxKeys == 2
MaxLifetimes == 2    \* the clock is followed for this many token lifetimes
NumThreads == 2

(***************************************************************************)
(* Program constants.                                                      *)
(***************************************************************************)
KEY_EXPIRATION_MINUTES == 30

HTTP_OK == 200
HTTP_BAD_REQUEST == 400
HTTP_UNAUTHORIZED == 401
HTTP_NOT_FOUND == 404
HTTP_UNPROCESSABLE == 422
RENEWABLE_SHARE_TENTHS == 655   \* 65.5, in tenths

(***************************************************************************)
(* Inputs.                                                                 *)
(***************************************************************************)
KeyPool == <<"tok1", "tok2", "tok3", "tok4">>
Keys == {KeyPool[i] : i \in 1..MaxKeys}
NoHeader == "<absent>"    \* the request carries no x-api-key header
\* a value of the pool that generate_key has not returned is an unknown token
Headers == Keys \cup {NoHeader}
\* minutes between two readings of the clock: a token issued at one reading
\* is met again at the reading equal to its expires_at, and at the next, past it
Deltas == {KEY_EXPIRATION_MINUTES}
MaxTime == MaxLifetimes * KEY_EXPIRATION_MINUTES
Names == {"Nairobi", "nairobi"}   \* path parameters: a region of the data and one that is not
Scopes == {"national"} \cup Names
Values == {-1, 0, 7}

NoData == [kind |-> "none"]   \* a response without a body of data

\* ---- dictionaries (Python dict as a function on its key set) ----
EmptyDict == [k \in {} |-> 0]
DictSet(d, key, val) == [k \in (DOMAIN d) \cup {key} |-> IF k = key THEN val ELSE d[k]]
DictDel(d, ks) == [k \in (DOMAIN d) \ ks |-> d[k]]

RECURSIVE SumCol(_, _)
SumCol(rows, col) ==
    IF rows = <<>> THEN 0 ELSE Head(rows)[col] + SumCol(Tail(rows), col)

RECURSIVE Filter(_, _, _)
Filter(rows, col, val) ==
    IF rows = <<>> THEN <<>>
    ELSE IF Head(rows)[col] = val
         THEN <<Head(rows)>> \o Filter(Tail(rows), col, val)
         ELSE Filter(Tail(rows), col, val)

ColumnValues(rows, col) == {rows[i][col] : i \in 1..Len(rows)}

(***************************************************************************)
(* utils.py: the data files and load_csv_safe.  A file is                  *)
(* [exists, columns, rows]; a row is a record over the columns in which a  *)
(* missing cell (pandas NaN) is a field the record does not have.          *)
(***************************************************************************)
GEN_COLUMNS == {"date", "generation_mwh", "county"}
EM_COLUMNS == {"date", "emissions_tCO2", "county"}

\* utils.py:25 and :29, the columns that hold numbers
IsNumeric(col) == col \in {"generation_mwh", "emissions_tCO2"}

FillRow(row, columns) ==
    [c \in columns |-> IF c \in DOMAIN row THEN row[c]
                       ELSE IF IsNumeric(c) THEN 0 ELSE ""]

load_csv_safe(file, expected_columns) ==
    LET df == IF file.exists
              THEN [columns |-> file.columns, rows |-> file.rows]
              ELSE [columns |-> expected_columns, rows |-> <<>>]
        columns == df.columns \cup expected_columns
    IN  [columns |-> columns,
         rows |-> [i \in 1..Len(df.rows) |-> FillRow(df.rows[i], columns)]]

\* the two files of the data directory the process is started on
GenerationCsv ==
    [exists |-> TRUE,
     columns |-> {"date", "generation_mwh", "county", "source"},
     rows |-> << [date |-> "d1", generation_mwh |-> 3, county |-> "Nairobi", source |-> "hydro"],
                 [date |-> "d2", generation_mwh |-> 2, county |-> "Nairobi", source |-> "solar"],
                 [date |-> "d2", generation_mwh |-> 4, source |-> "wind"] >>]
EmissionsCsv ==
    [exists |-> TRUE,
     columns |-> {"date", "emissions_tCO2", "county"},
     rows |-> << [date |-> "d1", emissions_tCO2 |-> 5, county |-> "Nairobi"],
                 [date |-> "d2", emissions_tCO2 |-> 1] >>]

\* utils.py:37-38, the tables every request reads; nothing writes them
GEN_DF == load_csv_safe(GenerationCsv, GEN_COLUMNS)
EM_DF == load_csv_safe(EmissionsCsv, EM_COLUMNS)

(***************************************************************************)
(* main.py:100-120, the region map built at import.  dropna() runs on a    *)
(* column load_csv_safe has already filled, so it drops nothing.           *)
(***************************************************************************)
dropna(cells) == {c \in cells : TRUE}

BySource(df, county) ==
    IF "source" \in df.columns
    THEN LET rows == Filter(df.rows, "county", county)
         IN  { [source |-> s,
                generation_MWh |-> SumCol(Filter(rows, "source", s), "generation_mwh")]
               : s \in ColumnValues(rows, "source") }
    ELSE {}

BuildCountiesData(df) ==
    IF "county" \in df.columns
    THEN [county \in dropna(ColumnValues(df.rows, "county")) |->
            [county |-> county,
             total_generation |-> SumCol(Filter(df.rows, "county", county), "generation_mwh"),
             by_source |-> BySource(df, county)]]
    ELSE EmptyDict

\* main.py:100
counties_data == BuildCountiesData(GEN_DF)

(***************************************************************************)
(* main.py:45-63, the token authority.                                     *)
(***************************************************************************)
\* main.py:47, secrets.token_urlsafe(16): a value no earlier call returned.
\* Token values are opaque, so the pool is drawn from in its order.
NextToken(returned) ==
    KeyPool[Cardinality(DOMAIN returned) + 1]

\* main.py:48
ExpiresAt(t) == t + KEY_EXPIRATION_MINUTES

\* a generate_key that starts the dictionary afresh
StoreKey_Replace(keys, new_key, expires_at) == DictSet(EmptyDict, new_key, expires_at)

\* main.py:49, the dictionary after generate_key stored new_key
StoreKey(keys, new_key, expires_at) == DictSet(keys, new_key, expires_at)

\* a sweep that also takes the tokens expiring at this very time
Expired_Inclusive(keys, t) == {k \in DOMAIN keys : keys[k] <= t}

\* main.py:58
Expired(keys, t) == {k \in DOMAIN keys : keys[k] < t}

\* a deletion loop that misses one element of the expired list
Sweep_AllButOne(keys, t) ==
    LET expired == {k \in DOMAIN keys : keys[k] < t}
    IN  IF expired = {} THEN keys
        ELSE DictDel(keys, expired \ {CHOOSE k \in expired : TRUE})

\* main.py:59-60
Sweep(keys, t) == DictDel(keys, Expired(keys, t))

\* a membership test made on the dictionary as it was before the sweep
verify_api_key_CheckBeforeSweep(x_api_key, keys, t) ==
    [keys |-> DictDel(keys, {k \in DOMAIN keys : keys[k] < t}),
     ok |-> x_api_key \in DOMAIN keys]

\* single-use tokens: the call that accepts a token also deletes it
verify_api_key_SingleUse(x_api_key, keys, t) ==
    LET swept == DictDel(keys, {k \in DOMAIN keys : keys[k] < t})
    IN  [keys |-> DictDel(swept, {x_api_key}), ok |-> x_api_key \in DOMAIN swept]

\* a validation that only tests membership: no sweep, no look at expires_at
verify_api_key_MembershipOnly(x_api_key, keys, t) ==
    [keys |-> keys, ok |-> x_api_key \in DOMAIN keys]

\* a validation that keeps the accepted token only: every other token is dropped
verify_api_key_Exclusive(x_api_key, keys, t) ==
    LET swept == DictDel(keys, {k \in DOMAIN keys : keys[k] < t})
    IN  [keys |-> IF x_api_key \in DOMAIN swept
                  THEN DictDel(swept, (DOMAIN swept) \ {x_api_key}) ELSE swept,
         ok |-> x_api_key \in DOMAIN swept]

\* a validation that sweeps only when it accepts
verify_api_key_NoSweepOnReject(x_api_key, keys, t) ==
    LET swept == DictDel(keys, {k \in DOMAIN keys : keys[k] < t})
    IN  [keys |-> IF x_api_key \in DOMAIN swept THEN swept ELSE keys,
         ok |-> x_api_key \in DOMAIN swept]

\* main.py:56-63: the dictionary the call leaves and whether it returned
\* (ok) or raised HTTPException(401)
verify_api_key(x_api_key, keys, t) ==
    LET swept == Sweep(keys, t)
    IN  [keys |-> swept, ok |-> x_api_key \in DOMAIN swept]

\* a route declared without its dependency: the handler runs for any header
Depends_Missing(x_api_key, keys, t) ==
    IF x_api_key = NoHeader
    THEN [keys |-> keys, status |-> HTTP_UNPROCESSABLE, vnow |-> -1]
    ELSE [keys |-> keys, status |-> HTTP_OK, vnow |-> t]

\* dependencies=[Depends(verify_api_key)] with x_api_key: str = Header(...):
\* a request without the header is answered 422 by the framework's request
\* validation and verify_api_key is not called; otherwise the handler runs
\* only if verify_api_key returned.
Depends(x_api_key, keys, t) ==
    IF x_api_key = NoHeader
    THEN [keys |-> keys, status |-> HTTP_UNPROCESSABLE, vnow |-> -1]
    ELSE LET v == verify_api_key(x_api_key, keys, t)
         IN  [keys |-> v.keys,
              status |-> IF v.ok THEN HTTP_OK ELSE HTTP_UNAUTHORIZED,
              vnow |-> t]

(***************************************************************************)
(* main.py:132-238, the handlers.  Each is the function body: it maps the  *)
(* arguments and the global tables to the response (status, data) and, for *)
(* set_manual_emissions, the override store it leaves.                     *)
(***************************************************************************)
\* main.py:143-157
NationalEmissions(estimate_emissions, use_manual_override, store, em) ==
    IF ~estimate_emissions
    THEN [total_emissions |-> 0, source |-> "disabled"]
    ELSE IF use_manual_override /\ "national" \in DOMAIN store
    THEN [total_emissions |-> store["national"], source |-> "user_entered"]
    ELSE [total_emissions |-> IF "emissions_tCO2" \in em.columns
                              THEN SumCol(em.rows, "emissions_tCO2") ELSE 0,
          source |-> "calculated"]

\* main.py:132-166
national_summary(estimate_emissions, use_manual_override, store, gen, em) ==
    LET e == NationalEmissions(estimate_emissions, use_manual_override, store, em)
    IN  [status |-> HTTP_OK,
         data |-> [kind |-> "national",
                   total_generation |-> SumCol(gen.rows, "generation_mwh"),
                   total_emissions |-> e.total_emissions,
                   emissions_source |-> e.source,
                   renewable_share |-> RENEWABLE_SHARE_TENTHS]]

\* the override consulted before the estimate_emissions flag
CountyEmissions_ManualFirst(name, estimate_emissions, use_manual_override, store, em) ==
    IF use_manual_override /\ name \in DOMAIN store
    THEN [total_emissions |-> store[name], source |-> "user_entered"]
    ELSE IF ~estimate_emissions
    THEN [total_emissions |-> 0, source |-> "disabled"]
    ELSE [total_emissions |-> SumCol(Filter(em.rows, "county", name), "emissions_tCO2"),
          source |-> "calculated"]

\* the override looked up under the lower-cased region name
CountyEmissions_LowerCased(name, estimate_emissions, use_manual_override, store, em) ==
    LET key == IF name = "Nairobi" THEN "nairobi" ELSE name
    IN  IF ~estimate_emissions
        THEN [total_emissions |-> 0, source |-> "disabled"]
        ELSE IF use_manual_override /\ key \in DOMAIN store
        THEN [total_emissions |-> store[key], source |-> "user_entered"]
        ELSE [total_emissions |-> SumCol(Filter(em.rows, "county", name), "emissions_tCO2"),
              source |-> "calculated"]

\* main.py:187-199
CountyEmissions(name, estimate_emissions, use_manual_override, store, em) ==
    IF ~estimate_emissions
    THEN [total_emissions |-> 0, source |-> "disabled"]
    ELSE IF use_manual_override /\ name \in DOMAIN store
    THEN [total_emissions |-> store[name], source |-> "user_entered"]
    ELSE [total_emissions |-> IF "emissions_tCO2" \in em.columns
                              THEN SumCol(Filter(em.rows, "county", name), "emissions_tCO2")
                              ELSE 0,
          source |-> "calculated"]

\* the override consulted before the region lookup
county_insights_OverrideBeforeLookup(name, estimate_emissions, use_manual_override, store, counties, em) ==
    IF estimate_emissions /\ use_manual_override /\ name \in DOMAIN store
    THEN [status |-> HTTP_OK,
          data |-> [kind |-> "county", county |-> name, total_generation |-> 0,
                    by_source |-> {}, total_emissions |-> store[name],
                    emissions_source |-> "user_entered"]]
    ELSE IF name \notin DOMAIN counties
    THEN [status |-> HTTP_NOT_FOUND, data |-> NoData]
    ELSE [status |-> HTTP_OK,
          data |-> [kind |-> "county", county |-> name,
                    total_generation |-> counties[name].total_generation,
                    by_source |-> counties[name].by_source,
                    total_emissions |-> 0, emissions_source |-> "disabled"]]

\* main.py:178-207
county_insights(name, estimate_emissions, use_manual_override, store, counties, em) ==
    IF name \notin DOMAIN counties
    THEN [status |-> HTTP_NOT_FOUND, data |-> NoData]
    ELSE LET county == counties[name]
             e == CountyEmissions(name, estimate_emissions, use_manual_override, store, em)
         IN  [status |-> HTTP_OK,
              data |-> [kind |-> "county",
                        county |-> county.county,
                        total_generation |-> county.total_generation,
                        by_source |-> county.by_source,
                        total_emissions |-> e.total_emissions,
                        emissions_source |-> e.source]]

\* the store written before the value is validated
set_manual_emissions_StoreFirst(scope, value, store) ==
    [status |-> IF value < 0 THEN HTTP_BAD_REQUEST ELSE HTTP_OK,
     data |-> IF value < 0 THEN NoData
              ELSE [kind |-> "confirmation", scope |-> scope, value |-> value],
     store |-> DictSet(store, scope, value)]

\* a write that keeps the value already stored for the scope
set_manual_emissions_FirstWriteWins(scope, value, store) ==
    IF value < 0
    THEN [status |-> HTTP_BAD_REQUEST, data |-> NoData, store |-> store]
    ELSE [status |-> HTTP_OK,
          data |-> [kind |-> "confirmation", scope |-> scope, value |-> value],
          store |-> IF scope \in DOMAIN store THEN store ELSE DictSet(store, scope, value)]

\* a write that refuses a scope that is neither "national" nor a region of the data
set_manual_emissions_KnownScopesOnly(scope, value, store) ==
    IF value < 0 \/ scope \notin ({"national"} \cup DOMAIN counties_data)
    THEN [status |-> HTTP_BAD_REQUEST, data |-> NoData, store |-> store]
    ELSE [status |-> HTTP_OK,
          data |-> [kind |-> "confirmation", scope |-> scope, value |-> value],
          store |-> DictSet(store, scope, value)]

\* a write without the test of main.py:229
set_manual_emissions_NoCheck(scope, value, store) ==
    [status |-> HTTP_OK,
     data |-> [kind |-> "confirmation", scope |-> scope, value |-> value],
     store |-> DictSet(store, scope, value)]

\* main.py:218-238
set_manual_emissions(scope, value, store) ==
    IF value < 0
    THEN [status |-> HTTP_BAD_REQUEST, data |-> NoData, store |-> store]
    ELSE [status |-> HTTP_OK,
          data |-> [kind |-> "confirmation", scope |-> scope, value |-> value],
          store |-> DictSet(store, scope, value)]

(***************************************************************************)
(* The state after import.                                                 *)
(***************************************************************************)
NoRequest ==
    [op |-> "none", header |-> NoHeader, name |-> "", est |-> FALSE, man |-> FALSE,
     value |-> 0, status |-> HTTP_OK, vnow |-> -1, data |-> NoData]

Request(op, header, name, est, man, value, status, vnow, data) ==
    [op |-> op, header |-> header, name |-> name, est |-> est, man |-> man,
     value |-> value, status |-> status, vnow |-> vnow, data |-> data]

\* a worker thread: where it stands in the call it runs, and the call's locals
IdleThread ==
    [pc |-> "idle", op |-> "none", header |-> NoHeader, vnow |-> -1,
     size |-> 0, snapshot |-> {}, visited |-> {}, expired |-> <<>>,
     new_key |-> NoHeader, expires_at |-> -1, scope |-> "", value |-> 0,
     result |-> "none"]

\* what the import of main.py leaves
Globals ==
    /\ now = 0
    /\ API_KEYS = EmptyDict
    /\ MANUAL_EMISSIONS_OVERRIDE = EmptyDict
    /\ issued = EmptyDict
    /\ resp = NoRequest

\* requests served one at a time: no thread is in the middle of a call
Init ==
    /\ Globals
    /\ threads = <<>>

(***************************************************************************)
(* The requests, served one at a time.                                     *)
(***************************************************************************)
\* time passes between two requests
Tick(d) ==
    /\ now + d <= MaxTime
    /\ now' = now + d
    /\ resp' = NoRequest
    /\ UNCHANGED <<API_KEYS, MANUAL_EMISSIONS_OVERRIDE, issued, threads>>

\* GET /api/generate-key (no dependency)
generate_key(new_key) ==
    /\ new_key = NextToken(issued)
    /\ LET expires_at == ExpiresAt(now)
       IN  /\ API_KEYS' = StoreKey(API_KEYS, new_key, expires_at)
           /\ issued' = DictSet(issued, new_key, expires_at)
           /\ resp' = Request("generate_key", NoHeader, "", FALSE, FALSE, 0, HTTP_OK, -1,
                              [kind |-> "key", api_key |-> new_key, expires_at |-> expires_at])
    /\ UNCHANGED <<now, MANUAL_EMISSIONS_OVERRIDE, threads>>

\* GET /api/energy/summary
NationalSummaryRequest(x_api_key, est, man) ==
    LET dep == Depends(x_api_key, API_KEYS, now)
        r == national_summary(est, man, MANUAL_EMISSIONS_OVERRIDE, GEN_DF, EM_DF)
    IN  /\ API_KEYS' = dep.keys
        /\ resp' = IF dep.status = HTTP_OK
                   THEN Request("national_summary", x_api_key, "national", est, man, 0,
                                r.status, dep.vnow, r.data)
                   ELSE Request("national_summary", x_api_key, "national", est, man, 0,
                                dep.status, dep.vnow, NoData)
        /\ UNCHANGED <<now, MANUAL_EMISSIONS_OVERRIDE, issued, threads>>

\* GET /api/energy/county/{name}
CountyInsightsRequest(x_api_key, name, est, man) ==
    LET dep == Depends(x_api_key, API_KEYS, now)
        r == county_insights(name, est, man, MANUAL_EMISSIONS_OVERRIDE, counties_data, EM_DF)
    IN  /\ API_KEYS' = dep.keys
        /\ resp' = IF dep.status = HTTP_OK
                   THEN Request("county_insights", x_api_key, name, est, man, 0,
                                r.status, dep.vnow, r.data)
                   ELSE Request("county_insights", x_api_key, name, est, man, 0,
                                dep.status, dep.vnow, NoData)
        /\ UNCHANGED <<now, MANUAL_EMISSIONS_OVERRIDE, issued, threads>>

\* POST /api/energy/manual-emissions
SetManualEmissionsRequest(x_api_key, scope, value) ==
    LET dep == Depends(x_api_key, API_KEYS, now)
        r == set_manual_emissions(scope, value, MANUAL_EMISSIONS_OVERRIDE)
    IN  /\ API_KEYS' = dep.keys
        /\ MANUAL_EMISSIONS_OVERRIDE' =
               IF dep.status = HTTP_OK THEN r.store ELSE MANUAL_EMISSIONS_OVERRIDE
        /\ resp' = IF dep.status = HTTP_OK
                   THEN Request("set_manual_emissions", x_api_key, scope, FALSE, FALSE, value,
                                r.status, dep.vnow, r.data)
                   ELSE Request("set_manual_emissions", x_api_key, scope, FALSE, FALSE, value,
                                dep.status, dep.vnow, NoData)
        /\ UNCHANGED <<now, issued, threads>>

Next ==
    \/ \E d \in Deltas : Tick(d)
    \/ \E k \in Keys \ DOMAIN issued : generate_key(k)
    \/ \E h \in Headers, est \in BOOLEAN, man \in BOOLEAN :
          NationalSummaryRequest(h, est, man)
    \/ \E h \in Headers, n \in Names, est \in BOOLEAN, man \in BOOLEAN :
          CountyInsightsRequest(h, n, est, man)
    \/ \E h \in Headers, s \in Scopes, v \in Values :
          SetManualEmissionsRequest(h, s, v)

Spec == Init /\ [][Next]_vars

(***************************************************************************)
(* The same calls run by the worker threads of the server's thread pool    *)
(* (generate_key and verify_api_key are plain def functions).  Nothing in  *)
(* main.py locks API_KEYS: a thread may be switched out between two        *)
(* evaluation steps, each dictionary operation being one step.             *)
(*   verify_api_key: read the clock; take the iterator of                  *)
(*   API_KEYS.items(), which remembers the dictionary's size; draw the     *)
(*   items one by one, each draw raising RuntimeError if the size is no    *)
(*   longer the remembered one; del the expired keys one by one, a del of  *)
(*   an absent key raising KeyError; test membership.                      *)
(* An iterator over a dictionary that kept its size while its keys changed *)
(* goes on, and may pass over an entry.                                    *)
(***************************************************************************)
ThreadIds == 1..NumThreads

SetThread(th, rec) == threads' = [threads EXCEPT ![th] = rec]

Finish(th, result) == SetThread(th, [threads[th] EXCEPT !.pc = "done", !.result = result])

\* main.py:57
CallVerify(th, x_api_key) ==
    /\ threads[th].pc = "idle"
    /\ SetThread(th, [IdleThread EXCEPT !.pc = "v_items", !.op = "verify_api_key",
                                        !.header = x_api_key, !.vnow = now])
    /\ UNCHANGED <<now, API_KEYS, MANUAL_EMISSIONS_OVERRIDE, issued, resp>>

\* main.py:58, iter(API_KEYS.items())
VerifyItems(th) ==
    /\ threads[th].pc = "v_items"
    /\ SetThread(th, [threads[th] EXCEPT !.pc = "v_next",
                                         !.size = Cardinality(DOMAIN API_KEYS),
                                         !.snapshot = DOMAIN API_KEYS])
    /\ UNCHANGED <<now, API_KEYS, MANUAL_EMISSIONS_OVERRIDE, issued, resp>>

\* main.py:58, one turn of the comprehension: the item drawn and tested
VerifyNextItem(th) ==
    /\ threads[th].pc = "v_next"
    /\ Cardinality(DOMAIN API_KEYS) = threads[th].size
    /\ \E k \in (DOMAIN API_KEYS) \ threads[th].visited :
          SetThread(th, [threads[th] EXCEPT
              !.visited = @ \cup {k},
              !.expired = IF k \in Expired(API_KEYS, threads[th].vnow)
                          THEN Append(@, k) ELSE @])
    /\ UNCHANGED <<now, API_KEYS, MANUAL_EMISSIONS_OVERRIDE, issued, resp>>

\* main.py:58, an entry the iterator passes over after the keys changed under it
VerifyNextSkip(th) ==
    /\ threads[th].pc = "v_next"
    /\ Cardinality(DOMAIN API_KEYS) = threads[th].size
    /\ DOMAIN API_KEYS # threads[th].snapshot
    /\ \E k \in (DOMAIN API_KEYS) \ threads[th].visited :
          SetThread(th, [threads[th] EXCEPT !.visited = @ \cup {k}])
    /\ UNCHANGED <<now, API_KEYS, MANUAL_EMISSIONS_OVERRIDE, issued, resp>>

\* main.py:58, the iterator is exhausted
VerifyNextStop(th) ==
    /\ threads[th].pc = "v_next"
    /\ Cardinality(DOMAIN API_KEYS) = threads[th].size
    /\ (DOMAIN API_KEYS) \ threads[th].visited = {}
    /\ SetThread(th, [threads[th] EXCEPT !.pc = "v_del"])
    /\ UNCHANGED <<now, API_KEYS, MANUAL_EMISSIONS_OVERRIDE, issued, resp>>

\* main.py:58, "dictionary changed size during iteration"
VerifyNextRaise(th) ==
    /\ threads[th].pc = "v_next"
    /\ Cardinality(DOMAIN API_KEYS) # threads[th].size
    /\ Finish(th, "RuntimeError")
    /\ UNCHANGED <<now, API_KEYS, MANUAL_EMISSIONS_OVERRIDE, issued, resp>>

\* main.py:59-60, one del API_KEYS[k]
VerifyDel(th) ==
    /\ threads[th].pc = "v_del"
    /\ threads[th].expired # <<>>
    /\ Head(threads[th].expired) \in DOMAIN API_KEYS
    /\ API_KEYS' = DictDel(API_KEYS, {Head(threads[th].expired)})
    /\ SetThread(th, [threads[th] EXCEPT !.expired = Tail(@)])
    /\ UNCHANGED <<now, MANUAL_EMISSIONS_OVERRIDE, issued, resp>>

\* main.py:60, del of a key that is no longer there
VerifyDelRaise(th) ==
    /\ threads[th].pc = "v_del"
    /\ threads[th].expired # <<>>
    /\ Head(threads[th].expired) \notin DOMAIN API_KEYS
    /\ Finish(th, "KeyError")
    /\ UNCHANGED <<now, API_KEYS, MANUAL_EMISSIONS_OVERRIDE, issued, resp>>

\* main.py:62-63
VerifyCheck(th) ==
    /\ threads[th].pc = "v_del"
    /\ threads[th].expired = <<>>
    /\ Finish(th, IF threads[th].header \in DOMAIN API_KEYS THEN "accepted" ELSE "401")
    /\ UNCHANGED <<now, API_KEYS, MANUAL_EMISSIONS_OVERRIDE, issued, resp>>

\* main.py:47-48
CallGenerate(th, new_key) ==
    /\ threads[th].pc = "idle"
    /\ new_key \notin DOMAIN issued
    /\ \A other \in ThreadIds : threads[other].new_key # new_key
    /\ \A i \in 1..MaxKeys :
          KeyPool[i] = new_key =>
              \A j \in 1..(i - 1) :
                  \/ KeyPool[j] \in DOMAIN issued
                  \/ \E other \in ThreadIds : threads[other].new_key = KeyPool[j]
    /\ SetThread(th, [IdleThread EXCEPT !.pc = "g_store", !.op = "generate_key",
                                        !.new_key = new_key,
                                        !.expires_at = ExpiresAt(now)])
    /\ UNCHANGED <<now, API_KEYS, MANUAL_EMISSIONS_OVERRIDE, issued, resp>>

\* main.py:49-53
GenerateStore(th) ==
    /\ threads[th].pc = "g_store"
    /\ API_KEYS' = StoreKey(API_KEYS, threads[th].new_key, threads[th].expires_at)
    /\ issued' = DictSet(issued, threads[th].new_key, threads[th].expires_at)
    /\ Finish(th, "200")
    /\ UNCHANGED <<now, MANUAL_EMISSIONS_OVERRIDE, resp>>

\* the response is sent and the thread goes back to the pool
Return(th) ==
    /\ threads[th].pc = "done"
    /\ SetThread(th, IdleThread)
    /\ UNCHANGED <<now, API_KEYS, MANUAL_EMISSIONS_OVERRIDE, issued, resp>>

NextConc ==
    \/ \E d \in Deltas : Tick(d)
    \/ \E th \in ThreadIds, h \in Keys : CallVerify(th, h)
    \/ \E th \in ThreadIds : VerifyItems(th)
    \/ \E th \in ThreadIds : VerifyNextItem(th)
    \/ \E th \in ThreadIds : VerifyNextSkip(th)
    \/ \E th \in ThreadIds : VerifyNextStop(th)
    \/ \E th \in ThreadIds : VerifyNextRaise(th)
    \/ \E th \in ThreadIds : VerifyDel(th)
    \/ \E th \in ThreadIds : VerifyDelRaise(th)
    \/ \E th \in ThreadIds : VerifyCheck(th)
    \/ \E th \in ThreadIds, k \in Keys : CallGenerate(th, k)
    \/ \E th \in ThreadIds : GenerateStore(th)
    \/ \E th \in ThreadIds : Return(th)

InitConc ==
    /\ Globals
    /\ threads = [th \in ThreadIds |-> IdleThread]

SpecConc == InitConc /\ [][NextConc]_vars

(***************************************************************************)
(* set_manual_emissions run by the worker threads (a plain def function    *)
(* too), every call taken as having passed verify_api_key.  The test of    *)
(* main.py:229 reads the call's own argument; the assignment of            *)
(* main.py:232 is one dictionary operation.                                *)
(***************************************************************************)
\* main.py:218, the call enters with its two arguments
CallSetManual(th, scope, value) ==
    /\ threads[th].pc = "idle"
    /\ SetThread(th, [IdleThread EXCEPT !.pc = "s_check", !.op = "set_manual_emissions",
                                        !.scope = scope, !.value = value])
    /\ UNCHANGED <<now, API_KEYS, MANUAL_EMISSIONS_OVERRIDE, issued, resp>>

\* main.py:229-230
SetManualCheck(th) ==
    /\ threads[th].pc = "s_check"
    /\ LET r == set_manual_emissions(threads[th].scope, threads[th].value,
                                     MANUAL_EMISSIONS_OVERRIDE)
       IN  IF r.status = HTTP_BAD_REQUEST
           THEN Finish(th, "400")
           ELSE SetThread(th, [threads[th] EXCEPT !.pc = "s_store"])
    /\ UNCHANGED <<now, API_KEYS, MANUAL_EMISSIONS_OVERRIDE, issued, resp>>

\* main.py:232-238
SetManualStore(th) ==
    /\ threads[th].pc = "s_store"
    /\ MANUAL_EMISSIONS_OVERRIDE' =
           set_manual_emissions(threads[th].scope, threads[th].value,
                                MANUAL_EMISSIONS_OVERRIDE).store
    /\ Finish(th, "200")
    /\ UNCHANGED <<now, API_KEYS, issued, resp>>

NextWrites ==
    \/ \E th \in ThreadIds, s \in Scopes, v \in Values : CallSetManual(th, s, v)
    \/ \E th \in ThreadIds : SetManualCheck(th)
    \/ \E th \in ThreadIds : SetManualStore(th)
    \/ \E th \in ThreadIds : Return(th)

SpecWrites == InitConc /\ [][NextWrites]_vars

(***************************************************************************)
(* Vocabulary of the properties.                                           *)
(***************************************************************************)
Protected == {"national_summary", "county_insights", "set_manual_emissions"}
Summaries == {"national_summary", "county_insights"}

\* the last request reached verify_api_key, which read the clock at resp.vnow
Verified == resp.op \in Protected /\ resp.vnow >= 0
\* verify_api_key returned and the handler ran
Accepted == Verified /\ resp.status # HTTP_UNAUTHORIZED
Rejected == Verified /\ resp.status = HTTP_UNAUTHORIZED

\* the emissions total of the data for a scope
DatasetEmissions(scope) ==
    IF scope = "national"
    THEN SumCol(EM_DF.rows, "emissions_tCO2")
    ELSE SumCol(Filter(EM_DF.rows, "county", scope), "emissions_tCO2")

(***************************************************************************)
(* C1: the emissions of a summary follow disabled > manual > calculated:   *)
(* with estimate_emissions false they are (0, "disabled") even when an     *)
(* override exists for the scope; otherwise, with use_manual_override true *)
(* and an override stored for the scope, they are (that value,             *)
(* "user_entered"); otherwise (the data's sum for the scope, "calculated").*)
(* The scope is "national" for national_summary and the region name for    *)
(* county_insights.                                                        *)
(***************************************************************************)
C1_Precedence ==
    (resp.op \in Summaries /\ resp.status = HTTP_OK) =>
        LET scope == IF resp.op = "national_summary" THEN "national" ELSE resp.name
            has == scope \in DOMAIN MANUAL_EMISSIONS_OVERRIDE
            got == <<resp.data.total_emissions, resp.data.emissions_source>>
        IN  /\ ~resp.est => got = <<0, "disabled">>
            /\ (resp.est /\ resp.man /\ has) =>
                   got = <<MANUAL_EMISSIONS_OVERRIDE[scope], "user_entered">>
            /\ (resp.est /\ ~(resp.man /\ has)) =>
                   got = <<DatasetEmissions(scope), "calculated">>

\* a region summary answered "disabled" while an override for the region is stored
C1_Witness ==
    /\ resp.op = "county_insights" /\ resp.status = HTTP_OK
    /\ ~resp.est /\ resp.man
    /\ resp.name \in DOMAIN MANUAL_EMISSIONS_OVERRIDE
    /\ MANUAL_EMISSIONS_OVERRIDE[resp.name] > 0
    /\ resp.data.emissions_source = "disabled"

(***************************************************************************)
(* C2 (as stated): a token is valid iff it is in the active set and        *)
(* now < expiresAt; every call made once now >= expiresAt is rejected.     *)
(***************************************************************************)
C2_RejectedFromExpiresAt ==
    (Verified /\ resp.header \in DOMAIN issued /\ resp.vnow >= issued[resp.header])
        => resp.status = HTTP_UNAUTHORIZED

(***************************************************************************)
(* C2 (amended): verify_api_key accepts a presented token iff generate_key *)
(* issued it and the time the call reads is not after its expiresAt        *)
(* (now <= expiresAt), however many other tokens exist; an accepted token  *)
(* is in the active set with the expiresAt it was issued with.             *)
(***************************************************************************)
C2_ValidUntilExpiresAt ==
    Verified =>
        /\ Accepted <=> (resp.header \in DOMAIN issued /\ resp.vnow <= issued[resp.header])
        /\ Accepted => /\ resp.header \in DOMAIN API_KEYS
                       /\ API_KEYS[resp.header] = issued[resp.header]

\* a token accepted right after it was issued, another token being active
C2_Witness ==
    /\ Accepted
    /\ resp.vnow + KEY_EXPIRATION_MINUTES = issued[resp.header]
    /\ \E k \in DOMAIN API_KEYS : k # resp.header

(***************************************************************************)
(* C3: a token presented at a time equal to its expiresAt is accepted and  *)
(* stays in the active set; a token that has left the active set has an    *)
(* expiresAt strictly before the current time.                             *)
(***************************************************************************)
C3_BoundaryStillValid ==
    /\ (Verified /\ resp.header \in DOMAIN issued /\ resp.vnow = issued[resp.header])
          => (Accepted /\ resp.header \in DOMAIN API_KEYS)
    /\ \A k \in DOMAIN issued : k \notin DOMAIN API_KEYS => issued[k] < now

C3_Witness ==
    /\ Accepted /\ resp.status = HTTP_OK
    /\ resp.header \in DOMAIN issued /\ resp.vnow = issued[resp.header]
    /\ now = resp.vnow

(***************************************************************************)
(* C4: after a verify_api_key call, accepted or rejected, no token whose   *)
(* expiresAt is before the time the call read is left in API_KEYS.         *)
(***************************************************************************)
C4_SweepExact ==
    Verified => \A k \in DOMAIN API_KEYS : ~(API_KEYS[k] < resp.vnow)

\* a rejected call that found two expired tokens, and none is left
C4_Witness ==
    /\ Rejected
    /\ Cardinality({k \in DOMAIN issued : issued[k] < resp.vnow}) >= 2
    /\ \A k \in DOMAIN issued : issued[k] < resp.vnow => k \notin DOMAIN API_KEYS

(***************************************************************************)
(* C5: set_manual_emissions(scope, v) with v < 0 answers 400 and leaves    *)
(* MANUAL_EMISSIONS_OVERRIDE as it was.                                    *)
(***************************************************************************)
C5_NegativeRejected ==
    [][ (resp'.op = "set_manual_emissions" /\ resp'.value < 0) =>
            /\ MANUAL_EMISSIONS_OVERRIDE' = MANUAL_EMISSIONS_OVERRIDE
            /\ resp'.data = NoData
            /\ (resp'.vnow >= 0 /\ resp'.status # HTTP_UNAUTHORIZED)
                   => resp'.status = HTTP_BAD_REQUEST ]_vars

\* a negative value refused for a scope that keeps its stored override
C5_Witness ==
    /\ resp.op = "set_manual_emissions" /\ resp.value < 0
    /\ resp.status = HTTP_BAD_REQUEST
    /\ resp.name \in DOMAIN MANUAL_EMISSIONS_OVERRIDE
    /\ MANUAL_EMISSIONS_OVERRIDE[resp.name] > 0

(***************************************************************************)
(* C6: a protected request whose token fails validation (never issued, or  *)
(* past its expiresAt) is answered 401 with no data, and the override      *)
(* store changes only in a set_manual_emissions request whose token is in  *)
(* the active set and not past its expiresAt.                              *)
(***************************************************************************)
C6_NoHandlerWithoutAuth ==
    [][ /\ (resp'.op \in Protected /\ resp'.vnow >= 0
            /\ ~(resp'.header \in DOMAIN issued /\ resp'.vnow <= issued[resp'.header]))
               => (resp'.status = HTTP_UNAUTHORIZED /\ resp'.data = NoData)
        /\ (MANUAL_EMISSIONS_OVERRIDE' # MANUAL_EMISSIONS_OVERRIDE)
               => /\ resp'.op = "set_manual_emissions"
                  /\ resp'.header \in DOMAIN API_KEYS
                  /\ API_KEYS[resp'.header] >= now
                  /\ resp'.status = HTTP_OK ]_vars

\* a write that would have been stored, refused because its token expired
C6_Witness ==
    /\ resp.op = "set_manual_emissions" /\ resp.value > 0
    /\ resp.status = HTTP_UNAUTHORIZED
    /\ resp.header \in DOMAIN issued
    /\ resp.name \notin DOMAIN MANUAL_EMISSIONS_OVERRIDE

(***************************************************************************)
(* C7: a protected request without the token header is answered 401, with  *)
(* no data.                                                                *)
(***************************************************************************)
C7_MissingHeaderIs401 ==
    (resp.op \in Protected /\ resp.header = NoHeader)
        => (resp.status = HTTP_UNAUTHORIZED /\ resp.data = NoData)

(***************************************************************************)
(* C8 (as stated): county_insights for a name that is not in the region    *)
(* map answers 404 whether or not the presented token is valid.            *)
(***************************************************************************)
C8_UnknownRegionAlways404 ==
    (resp.op = "county_insights" /\ resp.header # NoHeader
     /\ resp.name \notin DOMAIN counties_data)
        => resp.status = HTTP_NOT_FOUND

(***************************************************************************)
(* C8 (amended): county_insights for a name that is not in the region map, *)
(* presented with a token verify_api_key accepts, answers 404 with no data *)
(* whatever the two flags and whatever the override store holds (an        *)
(* override for that name included); presented with a token that fails     *)
(* validation it answers 401.                                              *)
(***************************************************************************)
C8_UnknownRegion404 ==
    (resp.op = "county_insights" /\ Verified /\ resp.name \notin DOMAIN counties_data) =>
        /\ resp.data = NoData
        /\ resp.status =
             IF resp.header \in DOMAIN issued /\ resp.vnow <= issued[resp.header]
             THEN HTTP_NOT_FOUND ELSE HTTP_UNAUTHORIZED

\* 404 for a name that has a stored override, both flags set
C8_Witness ==
    /\ resp.op = "county_insights" /\ resp.status = HTTP_NOT_FOUND
    /\ resp.est /\ resp.man
    /\ resp.name \in DOMAIN MANUAL_EMISSIONS_OVERRIDE

(***************************************************************************)
(* C9: under every interleaving of concurrently running generate_key and   *)
(* verify_api_key calls, a verify_api_key call ends by accepting or with   *)
(* the 401 rejection and never with another failure, and a call that       *)
(* presents an issued token that has not expired is accepted.              *)
(***************************************************************************)
C9_VerifyAtomic ==
    \A th \in ThreadIds :
        (threads[th].pc = "done" /\ threads[th].op = "verify_api_key") =>
            /\ threads[th].result \in {"accepted", "401"}
            /\ (threads[th].header \in DOMAIN issued
                /\ issued[threads[th].header] >= now)
                   => threads[th].result = "accepted"

(***************************************************************************)
(* C10: no token is invalidated before it expires.  In every step each     *)
(* token of the active set either stays with its expiresAt unchanged, or   *)
(* is removed by a verify_api_key call that read a time strictly after its *)
(* expiresAt; generate_key removes and changes none.                       *)
(***************************************************************************)
C10_OnlyExpiryRemoves ==
    [][ /\ \A k \in DOMAIN API_KEYS :
              \/ (k \in DOMAIN API_KEYS' /\ API_KEYS'[k] = API_KEYS[k])
              \/ (k \notin DOMAIN API_KEYS' /\ resp'.op \in Protected
                  /\ resp'.vnow = now /\ API_KEYS[k] < resp'.vnow)
        /\ resp'.op = "generate_key" => DOMAIN API_KEYS \subseteq DOMAIN API_KEYS' ]_vars

\* every token of the pool active at once, issued at different times
C10_Witness ==
    /\ resp.op = "generate_key"
    /\ DOMAIN API_KEYS = Keys
    /\ \E k \in Keys : API_KEYS[k] < API_KEYS[resp.data.api_key]
    /\ \A k \in Keys : API_KEYS[k] >= now

(***************************************************************************)
(* Vocabulary of the override properties.                                  *)
(***************************************************************************)
\* the request r is a set_manual_emissions call that reached main.py:232
Written(r) == r.op = "set_manual_emissions" /\ r.status = HTTP_OK
\* the request r is a summary answered with both flags set; r.name is its scope
OverrideRead(r) == r.op \in Summaries /\ r.status = HTTP_OK /\ r.est /\ r.man

(***************************************************************************)
(* C11: a successful set_manual_emissions(scope, v) leaves v stored for    *)
(* the scope, replacing what was there (last write wins); an entry of the  *)
(* store is never removed, and its value changes only in a successful      *)
(* write to its scope, so not in generate_key, in a sweep or when the      *)
(* clock passes an expiresAt; a summary with both flags set whose scope    *)
(* has an entry returns that entry's value as "user_entered".  A summary   *)
(* served right after a successful write to its scope returns the value    *)
(* written.                                                                *)
(***************************************************************************)
C11_LastWriteWins ==
    [][ /\ Written(resp') => /\ resp'.value >= 0
                             /\ resp'.name \in DOMAIN MANUAL_EMISSIONS_OVERRIDE'
                             /\ MANUAL_EMISSIONS_OVERRIDE'[resp'.name] = resp'.value
        /\ \A s \in DOMAIN MANUAL_EMISSIONS_OVERRIDE :
              /\ s \in DOMAIN MANUAL_EMISSIONS_OVERRIDE'
              /\ MANUAL_EMISSIONS_OVERRIDE'[s] # MANUAL_EMISSIONS_OVERRIDE[s]
                    => (Written(resp') /\ resp'.name = s)
        /\ (OverrideRead(resp') /\ resp'.name \in DOMAIN MANUAL_EMISSIONS_OVERRIDE)
              => /\ resp'.data.total_emissions = MANUAL_EMISSIONS_OVERRIDE[resp'.name]
                 /\ resp'.data.emissions_source = "user_entered"
        /\ (Written(resp) /\ OverrideRead(resp') /\ resp'.name = resp.name)
              => /\ resp'.data.total_emissions = resp.value
                 /\ resp'.data.emissions_source = "user_entered" ]_vars

\* a summary answered with a stored 0 as "user_entered" while another scope
\* holds 7, after an issued token has expired and been swept
C11_Witness ==
    /\ OverrideRead(resp)
    /\ resp.data.emissions_source = "user_entered" /\ resp.data.total_emissions = 0
    /\ \E s \in DOMAIN MANUAL_EMISSIONS_OVERRIDE : MANUAL_EMISSIONS_OVERRIDE[s] = 7
    /\ \E k \in DOMAIN issued : k \notin DOMAIN API_KEYS

\* the answer to a summary request presenting x_api_key when the token
\* dictionary is keys, the clock reads t and the override store is store
ReadResponse(op, x_api_key, name, est, man, keys, t, store) ==
    LET dep == Depends(x_api_key, keys, t)
        r == IF op = "national_summary"
             THEN national_summary(est, man, store, GEN_DF, EM_DF)
             ELSE county_insights(name, est, man, store, counties_data, EM_DF)
    IN  IF dep.status = HTTP_OK
        THEN [status |-> r.status, data |-> r.data]
        ELSE [status |-> dep.status, data |-> NoData]

\* the summary operation whose scope is the given one
ReadOp(scope) == IF scope = "national" THEN "national_summary" ELSE "county_insights"

(***************************************************************************)
(* C12 (as stated): a summary called twice with the same token, region and *)
(* flags and no override write in between gives the same output: no step   *)
(* that leaves the override store as it was changes the answer to any      *)
(* summary request presenting an issued token.                             *)
(***************************************************************************)
C12_SameOutputWithoutWrite ==
    [][ MANUAL_EMISSIONS_OVERRIDE' = MANUAL_EMISSIONS_OVERRIDE =>
          \A h \in DOMAIN issued, n \in Scopes, est \in BOOLEAN, man \in BOOLEAN :
              ReadResponse(ReadOp(n), h, n, est, man, API_KEYS', now', MANUAL_EMISSIONS_OVERRIDE')
                = ReadResponse(ReadOp(n), h, n, est, man, API_KEYS, now, MANUAL_EMISSIONS_OVERRIDE) ]_vars

(***************************************************************************)
(* C12 (amended): no summary request changes the override store; a summary *)
(* served right after the same summary (same token, region and flags, the  *)
(* clock not having moved) gives the same status and data; and the answer  *)
(* to a summary request is 401 if verify_api_key rejects the token at the  *)
(* time it reads and otherwise what the handler computes from the region,  *)
(* the flags and the override store alone, so that two accepted calls with *)
(* the same inputs and no override write in between answer the same.       *)
(***************************************************************************)
C12_ReadsIdempotent ==
    [][ /\ resp'.op \in Summaries => MANUAL_EMISSIONS_OVERRIDE' = MANUAL_EMISSIONS_OVERRIDE
        /\ (/\ resp.op \in Summaries /\ resp'.op = resp.op
            /\ resp'.header = resp.header /\ resp'.name = resp.name
            /\ resp'.est = resp.est /\ resp'.man = resp.man)
              => (resp'.status = resp.status /\ resp'.data = resp.data)
        /\ (resp'.op \in Summaries /\ resp'.vnow >= 0) =>
              IF resp'.header \in DOMAIN issued /\ resp'.vnow <= issued[resp'.header]
              THEN LET r == ReadResponse(resp'.op, resp'.header, resp'.name, resp'.est,
                                         resp'.man, API_KEYS', resp'.vnow,
                                         MANUAL_EMISSIONS_OVERRIDE)
                   IN  resp'.status = r.status /\ resp'.data = r.data
              ELSE resp'.status = HTTP_UNAUTHORIZED /\ resp'.data = NoData ]_vars

\* a summary answered from the data although an override is stored for its
\* scope, by a call whose sweep removed another token and kept the one presented
C12_Witness ==
    /\ resp.op \in Summaries /\ resp.status = HTTP_OK
    /\ resp.est /\ ~resp.man /\ resp.name \in DOMAIN MANUAL_EMISSIONS_OVERRIDE
    /\ resp.data.emissions_source = "calculated"
    /\ resp.header \in DOMAIN API_KEYS
    /\ \E k \in DOMAIN issued : k \notin DOMAIN API_KEYS /\ issued[k] < resp.vnow

\* the scopes a summary can read: "national" and the keys of the region map
ReadableScopes == {"national"} \cup DOMAIN counties_data

(***************************************************************************)
(* C13: set_manual_emissions does not validate the scope: a write of a     *)
(* value >= 0 that passes verify_api_key is answered 200 and stored under  *)
(* the scope given, whatever the scope.  A write to a scope that is        *)
(* neither "national" nor a known region changes the answer to no          *)
(* national_summary and no county_insights request, and county_insights    *)
(* for that name answers 404 while the override is stored.                 *)
(***************************************************************************)
C13_UnknownScopeInert ==
    [][ /\ (resp'.op = "set_manual_emissions" /\ resp'.vnow >= 0
            /\ resp'.status # HTTP_UNAUTHORIZED /\ resp'.value >= 0)
              => /\ resp'.status = HTTP_OK
                 /\ resp'.name \in DOMAIN MANUAL_EMISSIONS_OVERRIDE'
                 /\ MANUAL_EMISSIONS_OVERRIDE'[resp'.name] = resp'.value
        /\ (Written(resp') /\ resp'.name \notin ReadableScopes)
              => \A n \in Scopes, est \in BOOLEAN, man \in BOOLEAN :
                    ReadResponse(ReadOp(n), resp'.header, n, est, man, API_KEYS', now',
                                 MANUAL_EMISSIONS_OVERRIDE')
                      = ReadResponse(ReadOp(n), resp'.header, n, est, man, API_KEYS', now',
                                     MANUAL_EMISSIONS_OVERRIDE)
        /\ (resp'.op = "county_insights" /\ resp'.vnow >= 0
            /\ resp'.status # HTTP_UNAUTHORIZED /\ resp'.name \notin ReadableScopes)
              => resp'.status = HTTP_NOT_FOUND ]_vars

\* a write to a scope no summary reads, stored beside the overrides of
\* "national" and of a region
C13_Witness ==
    /\ Written(resp) /\ resp.name \notin ReadableScopes
    /\ resp.name \in DOMAIN MANUAL_EMISSIONS_OVERRIDE
    /\ MANUAL_EMISSIONS_OVERRIDE[resp.name] = resp.value
    /\ \E s \in DOMAIN counties_data : s \in DOMAIN MANUAL_EMISSIONS_OVERRIDE
    /\ "national" \in DOMAIN MANUAL_EMISSIONS_OVERRIDE

\* the regions named by the rows of generation.csv that have a region
NamedRegions ==
    {GenerationCsv.rows[i].county :
        i \in {j \in 1..Len(GenerationCsv.rows) : "county" \in DOMAIN GenerationCsv.rows[j]}}

(***************************************************************************)
(* C14: the rows of the generation table whose region is missing produce   *)
(* no key of counties_data: its keys are the regions named by the other    *)
(* rows, and the empty string is not among them; the generation of every   *)
(* row, those without a region included, is in the total_generation that   *)
(* national_summary returns.                                               *)
(***************************************************************************)
C14_NullRegionExcluded ==
    /\ DOMAIN counties_data = NamedRegions
    /\ "" \notin DOMAIN counties_data
    /\ (resp.op = "national_summary" /\ resp.status = HTTP_OK)
          => resp.data.total_generation = SumCol(GenerationCsv.rows, "generation_mwh")

(***************************************************************************)
(* C15: generate_key never sweeps: a token of API_KEYS that has expired    *)
(* is still there after any number of generate_key calls.  A request that  *)
(* presents a token still in API_KEYS whose expiresAt is strictly before   *)
(* the time verify_api_key reads is answered 401 with no data, the token   *)
(* leaves API_KEYS in that call and the override store is not touched;     *)
(* whatever happened since it was issued, a token presented after its      *)
(* expiresAt is rejected.                                                  *)
(***************************************************************************)
C15_LingeringRejected ==
    [][ /\ resp'.op = "generate_key" =>
              \A k \in DOMAIN API_KEYS :
                  API_KEYS[k] < now => (k \in DOMAIN API_KEYS' /\ API_KEYS'[k] = API_KEYS[k])
        /\ (/\ resp'.op \in Protected /\ resp'.vnow >= 0
            /\ resp'.header \in DOMAIN API_KEYS
            /\ API_KEYS[resp'.header] < resp'.vnow)
              => /\ resp'.status = HTTP_UNAUTHORIZED /\ resp'.data = NoData
                 /\ resp'.header \notin DOMAIN API_KEYS'
                 /\ MANUAL_EMISSIONS_OVERRIDE' = MANUAL_EMISSIONS_OVERRIDE
        /\ (/\ resp'.op \in Protected /\ resp'.vnow >= 0
            /\ resp'.header \in DOMAIN issued
            /\ issued[resp'.header] < resp'.vnow)
              => resp'.status = HTTP_UNAUTHORIZED ]_vars

\* an expired token rejected by a call made after a later generate_key: the
\* other token was issued at the time of the call, when this one had expired
C15_Witness ==
    /\ Rejected
    /\ resp.header \in DOMAIN issued /\ issued[resp.header] < resp.vnow
    /\ resp.header \notin DOMAIN API_KEYS
    /\ \E k \in DOMAIN API_KEYS : API_KEYS[k] = ExpiresAt(resp.vnow)

C17_WriteFrame ==
    [][ Written(resp') =>
          /\ DOMAIN MANUAL_EMISSIONS_OVERRIDE'
                = DOMAIN MANUAL_EMISSIONS_OVERRIDE \cup {resp'.name}
          /\ \A t \in DOMAIN MANUAL_EMISSIONS_OVERRIDE \ {resp'.name} :
                MANUAL_EMISSIONS_OVERRIDE'[t] = MANUAL_EMISSIONS_OVERRIDE[t]
          /\ \A t \in Scopes \ {resp'.name}, est \in BOOLEAN, man \in BOOLEAN :
                ReadResponse(ReadOp(t), resp'.header, t, est, man, API_KEYS', now',
                             MANUAL_EMISSIONS_OVERRIDE')
                  = ReadResponse(ReadOp(t), resp'.header, t, est, man, API_KEYS', now',
                                 MANUAL_EMISSIONS_OVERRIDE) ]_vars

\* a write under one spelling of a region name while the other spelling and
\* "national" hold a different value
C17_Witness ==
    /\ Written(resp) /\ resp.name \in Names
    /\ \A t \in Scopes \ {resp.name} :
          /\ t \in DOMAIN MANUAL_EMISSIONS_OVERRIDE
          /\ MANUAL_EMISSIONS_OVERRIDE[t] # MANUAL_EMISSIONS_OVERRIDE[resp.name]

\* the tokens other than h that were issued and have not passed their expiresAt at t
OtherValidTokens(h, t) == {k \in DOMAIN issued : k # h /\ issued[k] >= t}

(***************************************************************************)
(* C18: an override belongs to no token.  Right after a write accepted     *)
(* with token T1, a summary of the written scope with both flags set,      *)
(* requested with any other valid token T2, is accepted and returns the    *)
(* written value as "user_entered"; a summary answered from an override    *)
(* gets the answer every other valid token would get; and a step in which  *)
(* a token is swept from API_KEYS leaves every entry of the store in       *)
(* place, with its value unless the request of that step writes it.        *)
(***************************************************************************)
C18_OverrideNotTiedToToken ==
    [][ /\ Written(resp') =>
              \A T2 \in OtherValidTokens(resp'.header, now) :
                  LET r == ReadResponse(ReadOp(resp'.name), T2, resp'.name, TRUE, TRUE,
                                        API_KEYS', now', MANUAL_EMISSIONS_OVERRIDE')
                  IN  /\ r.status # HTTP_UNAUTHORIZED
                      /\ resp'.name \in ReadableScopes =>
                            /\ r.status = HTTP_OK
                            /\ r.data.total_emissions = resp'.value
                            /\ r.data.emissions_source = "user_entered"
        /\ (OverrideRead(resp') /\ resp'.name \in DOMAIN MANUAL_EMISSIONS_OVERRIDE) =>
              /\ resp'.data.emissions_source = "user_entered"
              /\ \A T2 \in OtherValidTokens(resp'.header, now) :
                    LET r == ReadResponse(resp'.op, T2, resp'.name, TRUE, TRUE,
                                          API_KEYS', now', MANUAL_EMISSIONS_OVERRIDE')
                    IN  r.status = resp'.status /\ r.data = resp'.data
        /\ (\E k \in DOMAIN API_KEYS : k \notin DOMAIN API_KEYS') =>
              \A s \in DOMAIN MANUAL_EMISSIONS_OVERRIDE :
                  /\ s \in DOMAIN MANUAL_EMISSIONS_OVERRIDE'
                  /\ MANUAL_EMISSIONS_OVERRIDE'[s] # MANUAL_EMISSIONS_OVERRIDE[s]
                        => (Written(resp') /\ resp'.name = s) ]_vars

\* an override returned to the one valid token after the other token has
\* expired and been swept
C18_Witness ==
    /\ OverrideRead(resp) /\ resp.data.emissions_source = "user_entered"
    /\ resp.data.total_emissions = 7
    /\ DOMAIN API_KEYS = {resp.header}
    /\ \E T1 \in DOMAIN issued :
          /\ T1 # resp.header /\ T1 \notin DOMAIN API_KEYS
          /\ issued[T1] < resp.vnow
          /\ issued[T1] < issued[resp.header]

(***************************************************************************)
(* C19: a request that verify_api_key rejects (401) has swept: the tokens  *)
(* it leaves in API_KEYS are exactly those that were there with an         *)
(* expiresAt not before the time the call read, each with its expiresAt    *)
(* unchanged; no token is added and the override store is as it was.       *)
(***************************************************************************)
C19_RejectedOnlySweeps ==
    [][ (resp'.op \in Protected /\ resp'.vnow >= 0 /\ resp'.status = HTTP_UNAUTHORIZED) =>
          /\ DOMAIN API_KEYS' = {k \in DOMAIN API_KEYS : API_KEYS[k] >= resp'.vnow}
          /\ \A k \in DOMAIN API_KEYS' : API_KEYS'[k] = API_KEYS[k]
          /\ issued' = issued
          /\ MANUAL_EMISSIONS_OVERRIDE' = MANUAL_EMISSIONS_OVERRIDE ]_vars

\* a rejected write: the expired token presented is gone from API_KEYS, the
\* token expiring at this very time is still there, the store is still empty
C19_Witness ==
    /\ Rejected /\ resp.op = "set_manual_emissions" /\ resp.value >= 0
    /\ resp.header \in DOMAIN issued /\ resp.header \notin DOMAIN API_KEYS
    /\ \E k \in DOMAIN API_KEYS : API_KEYS[k] = resp.vnow
    /\ MANUAL_EMISSIONS_OVERRIDE = EmptyDict

=============================================================================
